---------------------------- MODULE Spec2Model ----------------------------
(***************************************************************************)
(* Model of Simulation/Abstract/Transaction.py: one Transaction object     *)
(* writing journal entries (new) and entry records (addRecord, noise) into *)
(* the two SQLite tables JournalEntries and EntryRecords.                  *)
(*                                                                         *)
(* Random reals are modelled on a grid: a draw of random.random() is u/Grain*)
(* with u \in 0..Grain-1, so it lies in [0, 1).  Probabilities of the      *)
(* configuration (freq, proportion) are numerators over Grain as well:     *)
(* 0 is 0.0 and Grain is 1.0.  Amounts are whole currency units.           *)
(***************************************************************************)
EXTENDS Integers, Sequences, FiniteSets, TLC

VARIABLES NOISE_Type2, JournalEntries, EntryRecords, history

vars == <<NOISE_Type2, JournalEntries, EntryRecords, history>>

(* ------------------------------ bounds --------------------------------- *)

\* Number of calls (new / addRecord / noise) made in one run.
MaxCalls == 3

\* Number of rows the run writes into EntryRecords.
MaxRecords == 3

\* Resolution of the random source: draws are u/Grain, u \in 0..Grain-1.
Grain == 3

Draws == 0 .. (Grain - 1)

\* The draws explored for the amount and the side of a noise line: the
\* smallest and the largest value of the grid.
EndDraws == {0, Grain - 1}

\* The probability 1.0 as a numerator over Grain.
One == Grain

(* ------------------------------ inputs --------------------------------- *)

\* self.name of the Transaction object (set once by the constructor).
self_name == "Sales"

Postfixes == {1}

\* Values of the simulation clock env.now read by new.
Times == {5}

\* (name, fa_name, value) of the true lines a caller writes with addRecord.
TrueLines == { <<"ProductA", "Revenue", -100>>, <<"Cash", "Asset", 100>> }

BaseAmounts == {100}

\* The id argument of noise (suffix of the noisy account's name).
Ids == {7}

\* Results of randomString(6).
RandomStrings == {"aaaaaa", "bbbbbb"}

\* Noise configurations inside the documented ranges.
Freqs == {0, One}
NumAmplitudes == {0, 1, 3}
NoiseAmplitudes == {1}
Proportions == {0, 1, One}

ValidConfigs ==
    [freq : Freqs, num_amplitude : NumAmplitudes,
     noise_amplitude : NoiseAmplitudes, proportion : Proportions]

\* Configurations with one parameter outside its documented range.
InvalidConfigs ==
    { [freq |-> One + 1, num_amplitude |-> 3, noise_amplitude |-> 1, proportion |-> 1],
      [freq |-> One, num_amplitude |-> 0 - 1, noise_amplitude |-> 1, proportion |-> 1],
      [freq |-> One, num_amplitude |-> 3, noise_amplitude |-> 0 - 1, proportion |-> 1],
      [freq |-> One, num_amplitude |-> 3, noise_amplitude |-> 1, proportion |-> One + 1] }

IsValidConfig(c) ==
    /\ 0 <= c.freq /\ c.freq <= One
    /\ 0 <= c.proportion /\ c.proportion <= One
    /\ 0 <= c.num_amplitude
    /\ 0 <= c.noise_amplitude

(* ------------------------------ helpers -------------------------------- *)

RECURSIVE SumSeq(_)
SumSeq(s) == IF s = <<>> THEN 0 ELSE Head(s) + SumSeq(Tail(s))

MaxOf(S) == CHOOSE m \in S : \A x \in S : x <= m

\* Python int(): truncation toward zero of n/d (d > 0).
IntTrunc(n, d) == IF n >= 0 THEN n \div d ELSE 0 - ((0 - n) \div d)

\* random.uniform(a, b) = a + (b - a) * random(), as a numerator over Grain.
Uniform(a, b, u) == a * Grain + (b - a) * u

(* ------------------------------ the store ------------------------------ *)

\* Variant: LastRowId with the constant id of the commented-out "return 1".
LastRowIdConstant(table) == 1

\* cursor.lastrowid after an INSERT: SQLite gives the new row the rowid
\* one above the largest in the table (1 for an empty table).
LastRowId(table) ==
    IF table = {} THEN 1 ELSE MaxOf({r.ID : r \in table}) + 1

\* Variant: Insert as INSERT OR REPLACE keyed on Name.
InsertOrReplace(table, row) == {r \in table : r.Name # row.Name} \cup {row}

\* INSERT INTO table: the row is added, no other row is touched.
Insert(table, row) == table \cup {row}

\* Variant: Record with the Name and FA_Name values bound in the wrong order.
RecordColumnsSwapped(rowid, name, fa_name, value, tid) ==
    [ID |-> rowid, TID |-> tid, Name |-> fa_name, FA_Name |-> name, Value |-> value]

\* The column binding of INSERT INTO EntryRecords (TID, Name, FA_Name, Value).
Record(rowid, name, fa_name, value, tid) ==
    [ID |-> rowid, TID |-> tid, Name |-> name, FA_Name |-> fa_name, Value |-> value]

\* The column binding of INSERT INTO JournalEntries (Time, Name, FA_Name).
Entry(rowid, now, postfix) ==
    [ID |-> rowid, Time |-> now, Name |-> self_name \o ToString(postfix),
     FA_Name |-> self_name]

\* addRecord as a function of the table: the table after it and the id returned.
addRecord(records, name, fa_name, value, tid) ==
    LET rowid == LastRowId(records)
    IN  [records |-> Insert(records, Record(rowid, name, fa_name, value, tid)),
         lastrowid |-> rowid]

(* ------------------------------ noise ---------------------------------- *)

\* Variant: Triggered with <= in place of <.
TriggeredInclusive(u, freq) == u <= freq

\* random.random() < NOISE_Type2["freq"]
Triggered(u, freq) == u < freq

\* Variant: NoiseCount with an inclusive upper bound (one more pass).
NoiseCountPlusOne(u, num_amplitude) ==
    IntTrunc(Uniform(0, num_amplitude, u), Grain) + 1

\* int(random.uniform(0.0, NOISE_Type2["num_amplitude"]))
NoiseCount(u, num_amplitude) == IntTrunc(Uniform(0, num_amplitude, u), Grain)

\* base_amount * random.uniform(0.0, NOISE_Type2["noise_amplitude"])
NoiseAmount(base_amount, u, noise_amplitude) ==
    IntTrunc(base_amount * Uniform(0, noise_amplitude, u), Grain)

\* np.random.choice rejects a probability vector [p, 1 - p] with a negative entry.
ChoiceRaises(proportion) == proportion < 0 \/ proportion > One

\* Variant: ChooseSide with the probability vector reversed.
ChooseSideSwapped(u, proportion) ==
    IF u < One - proportion THEN "left" ELSE "right"

\* np.random.choice(["left", "right"], p=[proportion, 1 - proportion])
ChooseSide(u, proportion) == IF u < proportion THEN "left" ELSE "right"

\* Variant: NoiseAccountName without the "_" + str(id) suffix.
NoiseAccountNameNoSuffix(noise_name, id) == noise_name

\* noise_name + "_" + str(id)
NoiseAccountName(noise_name, id) == noise_name \o "_" \o ToString(id)

\* The value written for a noise line: -noise_amount on the left side,
\* noise_amount on the right side.
SignedAmount(noise_side, noise_amount) ==
    IF noise_side = "left" THEN 0 - noise_amount ELSE noise_amount

\* Variant: NoiseAppend that forgets the right side.
NoiseAppendLeftOnly(noise, noise_side, noise_amount) ==
    IF noise_side = "left"
    THEN [noise EXCEPT !["left"] = Append(@, noise_amount)]
    ELSE noise

\* noise["left"].append(noise_amount) / noise["right"].append(noise_amount)
NoiseAppend(noise, noise_side, noise_amount) ==
    [noise EXCEPT ![noise_side] = Append(@, noise_amount)]

\* What one pass of the loop draws: randomString(6) as noise_name, the amount
\* and the side (no side when np.random.choice raises).
LineDraws(base_amount) ==
    { [noise_name   |-> s,
       noise_amount |-> NoiseAmount(base_amount, ua, NOISE_Type2.noise_amplitude),
       noise_side   |-> IF ChoiceRaises(NOISE_Type2.proportion)
                        THEN "ValueError"
                        ELSE ChooseSide(us, NOISE_Type2.proportion)] :
      s \in RandomStrings, ua \in EndDraws, us \in EndDraws }

\* The body of the for loop, pass i .. Len(draws), on the local state
\* st = [records, noise, ids, raised].
RECURSIVE NoiseLoop(_, _, _, _, _, _)
NoiseLoop(draws, i, st, base_amount, id, tid) ==
    IF i > Len(draws) THEN st
    ELSE
      LET noise_name   == draws[i].noise_name
          noise_amount == draws[i].noise_amount
          noise_side   == draws[i].noise_side
      IN  IF noise_side = "ValueError"
          THEN [st EXCEPT !.raised = TRUE]
          ELSE
            LET value == SignedAmount(noise_side, noise_amount)
                w == addRecord(st.records, NoiseAccountName(noise_name, id),
                               noise_name, value, tid)
                st2 == [records |-> w.records,
                        noise   |-> NoiseAppend(st.noise, noise_side, noise_amount),
                        ids     |-> Append(st.ids, w.lastrowid),
                        raised  |-> FALSE]
            IN  NoiseLoop(draws, i + 1, st2, base_amount, id, tid)

(* ------------------------------ actions -------------------------------- *)

Init ==
    /\ NOISE_Type2 \in ValidConfigs
    /\ JournalEntries = {}
    /\ EntryRecords = {}
    /\ history = <<>>

InitAny ==
    /\ NOISE_Type2 \in InvalidConfigs
    /\ JournalEntries = {}
    /\ EntryRecords = {}
    /\ history = <<>>

\* Transaction.new(postfix)
New(postfix, now) ==
    /\ Len(history) < MaxCalls
    /\ LET rowid == LastRowId(JournalEntries)
       IN  /\ JournalEntries' = Insert(JournalEntries, Entry(rowid, now, postfix))
           /\ history' = Append(history,
                  [op |-> "new", postfix |-> postfix, ret |-> rowid])
    /\ UNCHANGED <<NOISE_Type2, EntryRecords>>

\* Transaction.addRecord(name, fa_name, value, tid)
AddRecord(name, fa_name, value, tid) ==
    /\ Len(history) < MaxCalls
    /\ Cardinality(EntryRecords) < MaxRecords
    /\ LET w == addRecord(EntryRecords, name, fa_name, value, tid)
       IN  /\ EntryRecords' = w.records
           /\ history' = Append(history,
                  [op |-> "addRecord", name |-> name, fa_name |-> fa_name,
                   value |-> value, tid |-> tid, ret |-> w.lastrowid])
    /\ UNCHANGED <<NOISE_Type2, JournalEntries>>

\* Transaction.noise(base_amount, id, tid)
Noise(base_amount, id, tid) ==
    /\ Len(history) < MaxCalls
    /\ \E triggered \in { Triggered(u, NOISE_Type2.freq) : u \in Draws } :
         \E n \in IF triggered
                  THEN { NoiseCount(u, NOISE_Type2.num_amplitude) : u \in Draws }
                  ELSE {0} :
             \E draws \in [1 .. n -> LineDraws(base_amount)] :
               LET st0 == [records |-> EntryRecords,
                           noise   |-> [left |-> <<0>>, right |-> <<0>>],
                           ids     |-> <<>>,
                           raised  |-> FALSE]
                   st == NoiseLoop(draws, 1, st0, base_amount, id, tid)
               IN  /\ Cardinality(EntryRecords) + Len(draws) <= MaxRecords
                   /\ EntryRecords' = st.records
                   /\ history' = Append(history,
                          [op |-> "noise", base_amount |-> base_amount, id |-> id,
                           tid |-> tid, triggered |-> triggered,
                           ids |-> st.ids, raised |-> st.raised, ret |-> st.noise])
    /\ UNCHANGED <<NOISE_Type2, JournalEntries>>

\* Entry ids a caller can pass: those created so far and the next, unassigned one.
Tids == 1 .. (Cardinality(JournalEntries) + 1)

Next ==
    \/ \E postfix \in Postfixes, now \in Times : New(postfix, now)
    \/ \E line \in TrueLines, tid \in Tids : AddRecord(line[1], line[2], line[3], tid)
    \/ \E base_amount \in BaseAmounts, id \in Ids, tid \in Tids :
          Noise(base_amount, id, tid)

Spec == Init /\ [][Next]_vars

SpecAny == InitAny /\ [][Next]_vars

(* ------------------------------ observers ------------------------------ *)

\* The calls of one kind made so far, as positions in the history.
Calls(op) == {i \in DOMAIN history : history[i].op = op}

\* The line ids the i-th call obtained from addRecord.
LineIds(i) ==
    IF history[i].op = "addRecord" THEN <<history[i].ret>>
    ELSE IF history[i].op = "noise" THEN history[i].ids
    ELSE <<>>

\* SELECT * FROM EntryRecords WHERE TID = tid
LinesOf(tid) == {r \in EntryRecords : r.TID = tid}

RowOf(id) == CHOOSE r \in EntryRecords : r.ID = id

RECURSIVE SumValues(_)
SumValues(S) ==
    IF S = {} THEN 0
    ELSE LET r == CHOOSE x \in S : TRUE IN r.Value + SumValues(S \ {r})

RECURSIVE SumOver(_, _)
SumOver(S, f) ==
    IF S = {} THEN 0
    ELSE LET x == CHOOSE y \in S : TRUE IN f[x] + SumOver(S \ {x}, f)

\* Number of amounts a noise result holds beyond the initial 0.0 of each side.
NoiseLines(ret) == (Len(ret.left) - 1) + (Len(ret.right) - 1)

\* The step is a call of op: the history grows by a record of that call.
IsCall(op) ==
    /\ Len(history') = Len(history) + 1
    /\ history'[Len(history')].op = op

(* ------------------------------ claims --------------------------------- *)

\* C1: the entry ids returned by new are pairwise distinct, and the line ids
\* returned by addRecord (called directly or from noise) are pairwise distinct.
C1_IdsNeverReused ==
    /\ \A i, j \in Calls("new") : i # j => history[i].ret # history[j].ret
    /\ \A i, j \in DOMAIN history :
         \A a \in DOMAIN LineIds(i), b \in DOMAIN LineIds(j) :
            (i # j \/ a # b) => LineIds(i)[a] # LineIds(j)[b]

C1_Witness ==
    /\ Cardinality(Calls("new")) >= 2
    /\ \E i \in Calls("noise") : Len(history[i].ids) >= 2

\* C2 (as claimed): every persisted line's TID is the ID of a persisted
\* journal entry.
C2_NoDanglingEntryId ==
    \A r \in EntryRecords : \E e \in JournalEntries : e.ID = r.TID

\* C3 (as claimed): under a noise configuration outside the documented ranges
\* every noise call fails and neither a journal entry nor a line is persisted.
C3_InvalidConfigPersistsNothing ==
    ~IsValidConfig(NOISE_Type2) =>
        /\ JournalEntries = {}
        /\ EntryRecords = {}
        /\ \A i \in Calls("noise") : history[i].raised

\* C4: every step keeps every persisted journal entry and every persisted
\* line, with all of its columns.
C4_AppendOnly ==
    [][JournalEntries \subseteq JournalEntries' /\ EntryRecords \subseteq EntryRecords']_vars

C4_Witness ==
    /\ Cardinality(JournalEntries) >= 1
    /\ Cardinality(EntryRecords) >= 2
    /\ Calls("noise") # {}

\* C5: with freq = 0 a call of noise leaves EntryRecords as it was and
\* returns the two initial lists.
C5_NoNoiseAtFrequencyZero ==
    [][(NOISE_Type2.freq = 0 /\ IsCall("noise")) =>
          /\ EntryRecords' = EntryRecords
          /\ history'[Len(history')].ids = <<>>
          /\ history'[Len(history')].ret = [left |-> <<0>>, right |-> <<0>>]]_vars

C5_Witness ==
    /\ NOISE_Type2.freq = 0
    /\ NOISE_Type2.num_amplitude = 3
    /\ Cardinality(Calls("noise")) >= 2

\* C6: with proportion = 1.0 every noise line is recorded on the left and
\* written with an amount <= 0; with proportion = 0.0 every noise line is
\* recorded on the right and written with an amount >= 0.
C6_SideFollowsProportion ==
    \A i \in Calls("noise") :
       LET h == history[i] IN
       /\ NOISE_Type2.proportion = One =>
             /\ h.ret.right = <<0>>
             /\ Len(h.ret.left) = Len(h.ids) + 1
             /\ \A k \in DOMAIN h.ids : RowOf(h.ids[k]).Value <= 0
       /\ NOISE_Type2.proportion = 0 =>
             /\ h.ret.left = <<0>>
             /\ Len(h.ret.right) = Len(h.ids) + 1
             /\ \A k \in DOMAIN h.ids : RowOf(h.ids[k]).Value >= 0

C6_Witness ==
    /\ NOISE_Type2.proportion = One
    /\ \E i \in Calls("noise") :
          /\ Len(history[i].ids) >= 2
          /\ \E k \in DOMAIN history[i].ids : RowOf(history[i].ids[k]).Value < 0

\* C7: for every created entry, the lines read back under its id are as many
\* as the addRecord calls made with it plus the noise amounts returned for
\* it, and every addRecord call's row carries the name, group and amount
\* (and entry id) it was written with.
C7_RoundTrip ==
    /\ \A e \in JournalEntries :
         Cardinality(LinesOf(e.ID)) =
             Cardinality({i \in Calls("addRecord") : history[i].tid = e.ID})
           + SumOver({i \in Calls("noise") : history[i].tid = e.ID},
                     [i \in DOMAIN history |->
                        IF history[i].op = "noise" THEN NoiseLines(history[i].ret) ELSE 0])
    /\ \A i \in Calls("addRecord") :
         LET h == history[i] IN
         \E r \in EntryRecords :
            /\ r.ID = h.ret
            /\ r.TID = h.tid
            /\ r.Name = h.name
            /\ r.FA_Name = h.fa_name
            /\ r.Value = h.value

C7_Witness ==
    \E e \in JournalEntries :
       /\ \E i \in Calls("addRecord") : history[i].tid = e.ID
       /\ \E i \in Calls("noise") :
             history[i].tid = e.ID /\ NoiseLines(history[i].ret) >= 1

\* C8 (as claimed): a triggered call of noise writes a number of lines in
\* [0, num_amplitude).
C8_CountBelowNumAmplitude ==
    \A i \in Calls("noise") :
       history[i].triggered =>
          /\ 0 <= Len(history[i].ids)
          /\ Len(history[i].ids) < NOISE_Type2.num_amplitude

\* C8 (amended): a triggered call of noise writes c lines with
\* 0 <= c < num_amplitude when num_amplitude > 0 and c = 0 when
\* num_amplitude = 0; the lines written are the amounts returned.
C8_CountBound ==
    \A i \in Calls("noise") :
       LET c == Len(history[i].ids) IN
       history[i].triggered =>
          /\ c = NoiseLines(history[i].ret)
          /\ NOISE_Type2.num_amplitude > 0 => c < NOISE_Type2.num_amplitude
          /\ NOISE_Type2.num_amplitude = 0 => c = 0

C8_Witness ==
    /\ NOISE_Type2.num_amplitude = 3
    /\ \E i \in Calls("noise") : history[i].triggered /\ Len(history[i].ids) = 2
    /\ \E i \in Calls("noise") : history[i].triggered /\ Len(history[i].ids) = 0

C10_ResultMatchesWritten ==
    [][IsCall("noise") =>
         LET h == history'[Len(history')]
             new == EntryRecords' \ EntryRecords
             left == h.ret.left
             right == h.ret.right
         IN  /\ left[1] = 0 /\ right[1] = 0
             /\ Cardinality(new) = NoiseLines(h.ret)
             /\ \A v \in {r.Value : r \in new}
                       \cup {0 - left[j] : j \in 2 .. Len(left)}
                       \cup {right[j] : j \in 2 .. Len(right)} :
                   Cardinality({r \in new : r.Value = v}) =
                       Cardinality({j \in 2 .. Len(left) : 0 - left[j] = v})
                     + Cardinality({j \in 2 .. Len(right) : right[j] = v})
             /\ SumValues(new) = SumSeq(right) - SumSeq(left)
             /\ ~h.triggered =>
                   /\ new = {}
                   /\ SumSeq(left) = 0 /\ SumSeq(right) = 0]_vars

C10_Witness ==
    \E i \in Calls("noise") :
       LET h == history[i] IN
       /\ Len(h.ret.left) = 2 /\ h.ret.left[2] > 0
       /\ Len(h.ret.right) = 2 /\ h.ret.right[2] > 0
       /\ Len(h.ids) = 2

=============================================================================
